---------------------------- MODULE Spec2Model ----------------------------
(***************************************************************************)
(* Model of tmtccmd's TCP communication interface (TcpIpTcpComIF) and of   *)
(* the PUS service 5 event telemetry parser (Service5Tm).                  *)
(*                                                                         *)
(* A bytearray is a sequence of bytes; in the transport model every byte   *)
(* carries the arrival number of the recv() call that produced it, so the  *)
(* order of the byte stream can be observed.  A deque is a sequence whose  *)
(* index 1 is the left end: appendleft puts at index 1, pop takes the      *)
(* last index.                                                             *)
(***************************************************************************)
EXTENDS Integers, Sequences, FiniteSets, TLC

\* ------------------------------------------------------------- bounds
\* Number of recv() calls that return bytes during one run.
MaxFrames == 3
\* Largest max_packets_stored the constructor is given (0 is allowed: the
\* constructor does not validate it).
MaxStored == 2
\* Longest object id handed to the Service5Tm constructor.
MaxObjectIdLen == 5
\* max_recv_size: the longest packet the reassembler accepts.
MaxRecvSize == 16
\* Byte counts one recv() returns: none (the peer has shut down) or some.
RecvSizes == {0, 2}

VARIABLES
    max_packets_stored,  \* constructor argument
    tcp_socket,          \* "none" | "unconnected" | "connected" | "closed"
    kill_signal,         \* __tm_thread_kill_signal
    tm_queue,            \* __tm_queue, deque of bytearrays
    analysis_queue,      \* __analysis_queue, deque of bytearrays
    queue_lock,          \* __queue_lock: "free" | "loop" | "main"
    lpc,                 \* position of the __tcp_conn_thread
    l_acquired,          \* `acquired` in __receive_tm_packets
    l_len,               \* self.__tm_queue.__len__() as read at the length test
    bytes_recvd,         \* `bytes_recvd` in __receive_tm_packets
    mpc,                 \* position of the calling thread
    r_acquired,          \* `acquired` in receive
    r_moved,             \* frames moved by the receive() in progress
    c_exited,            \* the loop had exited when the close() in progress began
    ret,                 \* outcome of the last finished call of the caller
    next_id,             \* arrival number of the next recv()
    kill_ever_set,       \* history: the stop signal has been set
    reassembled,         \* history: bytes the reassembler has consumed
    \* --- event telemetry (Service5Tm) ---
    raw_tm,              \* the packet given to Service5Tm.unpack
    unpacked,            \* what unpack returned or raised
    ctor_args,           \* the arguments of the last Service5Tm(...)
    built,               \* what the constructor returned or raised
    reparsed,            \* what unpack of the built packet returned or raised
    \* --- reassembly of a byte stream ---
    s_sent,              \* the packets and the partial packet the peer sends
    s_stream,            \* bytes of the stream no recv() has returned yet
    s_queue,             \* __tm_queue
    s_buffer,            \* __analysis_queue
    s_out,               \* packets returned by all receive() calls so far
    \* --- globals_setup ---
    args_in,             \* arguments of the last check_args_in_enum call
    args_out,            \* what it returned or raised
    mode_in,             \* arguments of the last check_and_set_core_mode_arg
    global_mode          \* the global MODE

tvars == <<max_packets_stored, tcp_socket, kill_signal, tm_queue, analysis_queue,
           queue_lock, lpc, l_acquired, l_len, bytes_recvd, mpc, r_acquired,
           r_moved, c_exited, ret, next_id, kill_ever_set, reassembled>>
uvars == <<raw_tm, unpacked>>
bvars == <<ctor_args, built, reparsed>>
svars == <<s_sent, s_stream, s_queue, s_buffer, s_out>>
avars == <<args_in, args_out, mode_in, global_mode>>
evars == <<uvars, bvars, svars, avars>>
vars == <<tvars, evars>>

\* ------------------------------------------------------------- deque
\* An append at the other end of the deque.
AppendRight(q, x) == q \o <<x>>

AppendLeft(q, x) == <<x>> \o q
PopRight(q) == SubSeq(q, 1, Len(q) - 1)
Rightmost(q) == q[Len(q)]

\* n bytes that all carry the arrival number id
RECURSIVE Frame(_, _)
Frame(id, n) == IF n = 0 THEN <<>> ELSE <<id>> \o Frame(id, n - 1)

NoRet == [op |-> "none", val |-> <<>>, exc |-> "none"]
Returned(op, v) == [op |-> op, val |-> v, exc |-> "none"]
Raised(op, e) == [op |-> op, val |-> <<>>, exc |-> e]

LoopRunning == lpc \notin {"new", "exited", "crashed"}
LoopFinished == lpc \in {"exited", "crashed"}

InitTransport ==
    /\ max_packets_stored \in 0..MaxStored
    /\ tcp_socket = "none"
    /\ kill_signal = FALSE
    /\ tm_queue = <<>>
    /\ analysis_queue = <<>>
    /\ queue_lock = "free"
    /\ lpc = "new"
    /\ l_acquired = FALSE
    /\ l_len = 0
    /\ bytes_recvd = <<>>
    /\ mpc = "idle"
    /\ r_acquired = FALSE
    /\ r_moved = 0
    /\ c_exited = FALSE
    /\ ret = NoRet
    /\ next_id = 1
    /\ kill_ever_set = FALSE
    /\ reassembled = <<>>

\* ------------------------------------------------- acquire_timeout
\* lock.acquire(timeout): taken at once when free; when the other thread
\* holds it for the whole timeout the result is False.
AcquireOutcome(who) ==
    IF queue_lock = "free" THEN [lock |-> who, acquired |-> TRUE]
    ELSE [lock |-> queue_lock, acquired |-> FALSE]

ReleaseOutcome(acquired) == IF acquired THEN "free" ELSE queue_lock

\* ------------------------------------------------- lifecycle (caller)
Initialize ==
    /\ mpc = "idle"
    /\ kill_signal' = FALSE
    /\ \/ /\ tcp_socket' = "connected"
          /\ ret' = Returned("initialize", <<>>)
       \/ /\ tcp_socket' = "unconnected"
          /\ ret' = Raised("initialize", "ConnectionRefusedError")
    /\ UNCHANGED <<evars, max_packets_stored, tm_queue, analysis_queue,
                   queue_lock, lpc, l_acquired, l_len, bytes_recvd, mpc,
                   r_acquired, r_moved, c_exited, next_id, kill_ever_set,
                   reassembled>>

\* A thread object that start() would run again each time it is called.
ThreadRestartable(l) == TRUE

\* self.__tcp_conn_thread is created once, in __init__; Thread.start()
\* runs it when it was never started and raises RuntimeError otherwise.
ThreadStartAllowed(l) == l = "new"

Open ==
    /\ mpc = "idle"
    /\ IF ThreadStartAllowed(lpc)
       THEN lpc' = "check" /\ ret' = Returned("open", <<>>)
       ELSE lpc' = lpc /\ ret' = Raised("open", "RuntimeError")
    /\ UNCHANGED <<evars, max_packets_stored, tcp_socket, kill_signal,
                   tm_queue, analysis_queue, queue_lock, l_acquired, l_len,
                   bytes_recvd, mpc, r_acquired, r_moved, c_exited, next_id,
                   kill_ever_set, reassembled>>

CloseSetSignal ==
    /\ mpc = "idle"
    /\ kill_signal' = TRUE
    /\ kill_ever_set' = TRUE
    /\ c_exited' = LoopFinished
    /\ mpc' = "c_join"
    /\ UNCHANGED <<evars, max_packets_stored, tcp_socket, tm_queue,
                   analysis_queue, queue_lock, lpc, l_acquired, l_len,
                   bytes_recvd, r_acquired, r_moved, ret, next_id,
                   reassembled>>

\* Thread.join(timeout): raises before start, returns when the thread has
\* finished or when the timeout has passed.
CloseJoin ==
    /\ mpc = "c_join"
    /\ IF lpc = "new"
       THEN mpc' = "idle" /\ ret' = Raised("close", "RuntimeError")
                          /\ c_exited' = FALSE
       ELSE mpc' = "c_shutdown" /\ UNCHANGED <<ret, c_exited>>
    /\ UNCHANGED <<evars, max_packets_stored, tcp_socket, kill_signal,
                   tm_queue, analysis_queue, queue_lock, lpc, l_acquired,
                   l_len, bytes_recvd, r_acquired, r_moved, next_id,
                   kill_ever_set, reassembled>>

ShutdownOutcome ==
    CASE tcp_socket = "none" -> "AttributeError"
      [] tcp_socket = "connected" -> "none"
      [] OTHER -> "OSError"

CloseShutdown ==
    /\ mpc = "c_shutdown"
    /\ IF ShutdownOutcome = "none"
       THEN mpc' = "c_sockclose" /\ UNCHANGED <<ret, c_exited>>
       ELSE mpc' = "idle" /\ ret' = Raised("close", ShutdownOutcome)
                          /\ c_exited' = FALSE
    /\ UNCHANGED <<evars, max_packets_stored, tcp_socket, kill_signal,
                   tm_queue, analysis_queue, queue_lock, lpc, l_acquired,
                   l_len, bytes_recvd, r_acquired, r_moved, next_id,
                   kill_ever_set, reassembled>>

CloseSocketClose ==
    /\ mpc = "c_sockclose"
    /\ tcp_socket' = "closed"
    /\ mpc' = "idle"
    /\ ret' = Returned("close", <<>>)
    /\ c_exited' = FALSE
    /\ UNCHANGED <<evars, max_packets_stored, kill_signal, tm_queue,
                   analysis_queue, queue_lock, lpc, l_acquired, l_len,
                   bytes_recvd, r_acquired, r_moved, next_id, kill_ever_set,
                   reassembled>>

\* ------------------------------------------------- background loop
\* while True and not kill_signal.is_set(); time.sleep() at the end of an
\* iteration changes no state and leads back here.
LoopCheck ==
    /\ lpc = "check"
    /\ lpc' = IF kill_signal THEN "exited" ELSE "select"
    /\ UNCHANGED <<evars, max_packets_stored, tcp_socket, kill_signal,
                   tm_queue, analysis_queue, queue_lock, l_acquired, l_len,
                   bytes_recvd, mpc, r_acquired, r_moved, c_exited, ret,
                   next_id, kill_ever_set, reassembled>>

\* select.select([socket], [], [], 0): TypeError on None, ValueError on a
\* closed socket (fileno -1); neither is caught by the loop.
LoopSelect ==
    /\ lpc = "select"
    /\ IF tcp_socket \in {"none", "closed"}
       THEN lpc' = "crashed"
       ELSE lpc' \in {"recv", "check"}
    /\ UNCHANGED <<evars, max_packets_stored, tcp_socket, kill_signal,
                   tm_queue, analysis_queue, queue_lock, l_acquired, l_len,
                   bytes_recvd, mpc, r_acquired, r_moved, c_exited, ret,
                   next_id, kill_ever_set, reassembled>>

\* What socket.recv(max_recv_size) can do on a socket in state s.
RecvOutcomes(s) ==
    IF s = "connected"
    THEN {"data", "ConnectionResetError", "ConnectionRefusedError", "OSError"}
    ELSE {"OSError"}

\* Where the loop goes when recv raises e: ConnectionResetError is caught in
\* __receive_tm_packets, ConnectionRefusedError in __tcp_tm_client, and both
\* go on with the next iteration; any other exception ends the thread.
AfterRecvError(e) ==
    IF e \in {"ConnectionResetError", "ConnectionRefusedError"}
    THEN "check" ELSE "crashed"

LoopRecv ==
    /\ lpc = "recv"
    /\ \E o \in RecvOutcomes(tcp_socket) :
         IF o = "data"
         THEN /\ next_id <= MaxFrames
              /\ \E n \in RecvSizes : bytes_recvd' = Frame(next_id, n)
              /\ next_id' = next_id + 1
              /\ lpc' = "acquire"
         ELSE /\ lpc' = AfterRecvError(o)
              /\ UNCHANGED <<bytes_recvd, next_id>>
    /\ UNCHANGED <<evars, max_packets_stored, tcp_socket, kill_signal,
                   tm_queue, analysis_queue, queue_lock, l_acquired, l_len,
                   mpc, r_acquired, r_moved, c_exited, ret, kill_ever_set,
                   reassembled>>

LoopAcquire ==
    /\ lpc = "acquire"
    /\ queue_lock' = AcquireOutcome("loop").lock
    /\ l_acquired' = AcquireOutcome("loop").acquired
    /\ lpc' = "lencheck"
    /\ UNCHANGED <<evars, max_packets_stored, tcp_socket, kill_signal,
                   tm_queue, analysis_queue, l_len, bytes_recvd, mpc,
                   r_acquired, r_moved, c_exited, ret, next_id,
                   kill_ever_set, reassembled>>

\* The body of the with statement is entered whether or not the lock was
\* acquired: `if not acquired` only logs.
LoopBodyEntered(acquired) == TRUE

QueueFull(q) == Len(q) >= max_packets_stored

LoopLenCheck ==
    /\ lpc = "lencheck"
    /\ IF LoopBodyEntered(l_acquired)
       THEN lpc' = IF QueueFull(tm_queue) THEN "pop" ELSE "append"
       ELSE lpc' = "release"
    /\ l_len' = Len(tm_queue)
    /\ UNCHANGED <<evars, max_packets_stored, tcp_socket, kill_signal,
                   tm_queue, analysis_queue, queue_lock, l_acquired,
                   bytes_recvd, mpc, r_acquired, r_moved, c_exited, ret,
                   next_id, kill_ever_set, reassembled>>

\* An eviction at the left end, where the newest frame is.
QueueWithoutNewest(q) == Tail(q)

\* The queue after `self.__tm_queue.pop()`: the right end is taken.
QueueAfterPop(q) == PopRight(q)

\* self.__tm_queue.pop(): IndexError on an empty deque, which nothing in
\* the loop catches; the lock guard is left on the way out.
LoopPop ==
    /\ lpc = "pop"
    /\ IF tm_queue = <<>>
       THEN /\ lpc' = "crashed"
            /\ queue_lock' = ReleaseOutcome(l_acquired)
            /\ l_acquired' = FALSE /\ l_len' = 0 /\ bytes_recvd' = <<>>
            /\ UNCHANGED tm_queue
       ELSE /\ tm_queue' = QueueAfterPop(tm_queue)
            /\ lpc' = "append"
            /\ UNCHANGED <<queue_lock, l_acquired, l_len, bytes_recvd>>
    /\ UNCHANGED <<evars, max_packets_stored, tcp_socket, kill_signal,
                   analysis_queue, mpc, r_acquired, r_moved, c_exited, ret,
                   next_id, kill_ever_set, reassembled>>

LoopAppend ==
    /\ lpc = "append"
    /\ tm_queue' = AppendLeft(tm_queue, bytes_recvd)
    /\ lpc' = "release"
    /\ UNCHANGED <<evars, max_packets_stored, tcp_socket, kill_signal,
                   analysis_queue, queue_lock, l_acquired, l_len,
                   bytes_recvd, mpc, r_acquired, r_moved, c_exited, ret,
                   next_id, kill_ever_set, reassembled>>

LoopRelease ==
    /\ lpc = "release"
    /\ queue_lock' = ReleaseOutcome(l_acquired)
    /\ l_acquired' = FALSE /\ l_len' = 0 /\ bytes_recvd' = <<>>
    /\ lpc' = "check"
    /\ UNCHANGED <<evars, max_packets_stored, tcp_socket, kill_signal,
                   tm_queue, analysis_queue, mpc, r_acquired, r_moved,
                   c_exited, ret, next_id, kill_ever_set, reassembled>>

LoopNext ==
    \/ LoopCheck \/ LoopSelect \/ LoopRecv \/ LoopAcquire
    \/ LoopLenCheck \/ LoopPop \/ LoopAppend \/ LoopRelease

\* ------------------------------------------------- receive (caller)
ReceiveAcquire ==
    /\ mpc = "idle"
    /\ queue_lock' = AcquireOutcome("main").lock
    /\ r_acquired' = AcquireOutcome("main").acquired
    /\ r_moved' = 0
    /\ mpc' = "r_test"
    /\ UNCHANGED <<evars, max_packets_stored, tcp_socket, kill_signal,
                   tm_queue, analysis_queue, lpc, l_acquired, l_len,
                   bytes_recvd, c_exited, ret, next_id, kill_ever_set,
                   reassembled>>

\* A drain test that waits until a frame is queued.
DrainTestWaits(q) == q # <<>>

\* `while self.__tm_queue:` -- the test never waits.
DrainTestEnabled(q) == TRUE

\* A drain loop followed by the parser inside the `with` block.
ParseInsideWith == "r_parse"

\* The `with` block ends with the drain loop; the parser is called after it.
AfterDrainLoop == "r_release"

ReceiveTest ==
    /\ mpc = "r_test"
    /\ DrainTestEnabled(tm_queue)
    /\ mpc' = IF tm_queue # <<>> THEN "r_move" ELSE AfterDrainLoop
    /\ UNCHANGED <<evars, max_packets_stored, tcp_socket, kill_signal,
                   tm_queue, analysis_queue, queue_lock, lpc, l_acquired,
                   l_len, bytes_recvd, r_acquired, r_moved, c_exited, ret,
                   next_id, kill_ever_set, reassembled>>

\* The popped frame put at the right end of the analysis queue.
DrainIntoRightEnd(aq, x) == Append(aq, x)

\* self.__analysis_queue.appendleft(x) for the x popped from the tm queue
DrainInto(aq, x) == AppendLeft(aq, x)

\* A drain that reads the right end of the tm queue and leaves it there.
QueueNotPopped(q) == q

\* The tm queue after the `self.__tm_queue.pop()` of the drain loop.
QueueAfterDrainPop(q) == PopRight(q)

\* self.__analysis_queue.appendleft(self.__tm_queue.pop()); only this thread
\* touches the analysis queue, so the two calls are one step.  pop() raises
\* IndexError when the queue was emptied since the test.
ReceiveMove ==
    /\ mpc = "r_move"
    /\ IF tm_queue = <<>>
       THEN /\ mpc' = "idle"
            /\ ret' = Raised("receive", "IndexError")
            /\ queue_lock' = ReleaseOutcome(r_acquired)
            /\ r_acquired' = FALSE /\ r_moved' = 0
            /\ UNCHANGED <<tm_queue, analysis_queue>>
       ELSE /\ tm_queue' = QueueAfterDrainPop(tm_queue)
            /\ analysis_queue' = DrainInto(analysis_queue, Rightmost(tm_queue))
            /\ r_moved' = r_moved + 1
            /\ mpc' = "r_test"
            /\ UNCHANGED <<ret, queue_lock, r_acquired>>
    /\ UNCHANGED <<evars, max_packets_stored, tcp_socket, kill_signal, lpc,
                   l_acquired, l_len, bytes_recvd, c_exited, next_id,
                   kill_ever_set, reassembled>>

ReceiveRelease ==
    /\ mpc = "r_release"
    /\ queue_lock' = ReleaseOutcome(r_acquired)
    /\ mpc' = "r_parse"
    /\ UNCHANGED <<evars, max_packets_stored, tcp_socket, kill_signal,
                   tm_queue, analysis_queue, lpc, l_acquired, l_len,
                   bytes_recvd, r_acquired, r_moved, c_exited, ret, next_id,
                   kill_ever_set, reassembled>>

\* parse_space_packets puts the whole analysis queue in one buffer by
\* popping from the right.
RECURSIVE Concatenated(_)
Concatenated(q) ==
    IF q = <<>> THEN <<>> ELSE Rightmost(q) \o Concatenated(PopRight(q))

\* com_type is SPACE_PACKETS, the only member of TcpCommunicationType.
\* The reassembler consumes a prefix of the buffer (the packets it returns
\* and the noise it discards) and leaves the trailing partial packet in the
\* analysis queue.  Where the prefix ends depends on the bytes.
ReceiveParse ==
    /\ mpc = "r_parse"
    /\ LET buf == Concatenated(analysis_queue) IN
       \E k \in 0..Len(buf) :
         /\ ret' = Returned("receive", SubSeq(buf, 1, k))
         /\ reassembled' = reassembled \o SubSeq(buf, 1, k)
         /\ analysis_queue' = IF k = Len(buf) THEN <<>>
                              ELSE <<SubSeq(buf, k + 1, Len(buf))>>
    /\ mpc' = "idle"
    /\ r_acquired' = FALSE /\ r_moved' = 0
    /\ UNCHANGED <<evars, max_packets_stored, tcp_socket, kill_signal,
                   tm_queue, queue_lock, lpc, l_acquired, l_len,
                   bytes_recvd, c_exited, next_id, kill_ever_set>>

ReceiveNext == ReceiveTest \/ ReceiveMove \/ ReceiveRelease \/ ReceiveParse

\* ------------------------------------------------- data_available
\* A data_available that also counts the bytes kept in the analysis queue.
DataAvailableCountsBuffer(q, aq) == q # <<>> \/ aq # <<>>

\* `if self.__tm_queue`: the analysis queue is not looked at.
DataAvailableValue(q, aq) == q # <<>>

DataAvailable ==
    /\ mpc = "idle"
    /\ ret' = Returned("data_available", DataAvailableValue(tm_queue, analysis_queue))
    /\ UNCHANGED <<evars, max_packets_stored, tcp_socket, kill_signal,
                   tm_queue, analysis_queue, queue_lock, lpc, l_acquired,
                   l_len, bytes_recvd, mpc, r_acquired, r_moved, c_exited,
                   next_id, kill_ever_set, reassembled>>

\* ------------------------------------------------- send
\* What socket.sendto(data, send_address) can do on a socket in state s.
SendOutcomes(s) ==
    CASE s = "none" -> {"AttributeError"}
      [] s = "connected" -> {"written", "ConnectionRefusedError", "OSError"}
      [] OTHER -> {"OSError"}

\* A send without the except clause: the refusal reaches the caller.
SendResultUncaught(o) ==
    [op |-> "send", val |-> (o = "written"), exc |-> IF o = "written" THEN "none" ELSE o]

\* `except ConnectionRefusedError` logs and returns; any other exception
\* leaves send().  send() returns None either way: val records whether
\* the bytes were written (TRUE) or the refusal was logged (FALSE).
SendResult(o) ==
    [op |-> "send", val |-> (o = "written"),
     exc |-> IF o \in {"written", "ConnectionRefusedError"} THEN "none" ELSE o]

Send ==
    /\ mpc = "idle"
    /\ \E o \in SendOutcomes(tcp_socket) : ret' = SendResult(o)
    /\ UNCHANGED <<evars, max_packets_stored, tcp_socket, kill_signal,
                   tm_queue, analysis_queue, queue_lock, lpc, l_acquired,
                   l_len, bytes_recvd, mpc, r_acquired, r_moved, c_exited,
                   next_id, kill_ever_set, reassembled>>

CallerNext ==
    \/ Initialize \/ Open \/ Send
    \/ CloseSetSignal \/ CloseJoin \/ CloseShutdown \/ CloseSocketClose
    \/ ReceiveAcquire \/ ReceiveNext
    \/ DataAvailable

\* ------------------------------------------------- Service5Tm
\* Largest source data length of a packet given to unpack.
MaxTmDataLen == 16
ServiceIds == {1, 5, 17}
\* Srv5Subservices: INFO_EVENT, LOW_, MEDIUM_ and HIGH_SEVERITY_EVENT
Subservices == 1..4
FillBytes == {0, 1, 37, 255}

\* n bytes of source data
TmData(n, fill) == [i \in 1..n |-> (fill * i) % 256]

\* What PusTelemetry.unpack hands over: the secondary header's service and
\* subservice and the source data.
RawPackets ==
    [service : ServiceIds, subservice : Subservices,
     tm_data : {TmData(n, f) : n \in 0..MaxTmDataLen, f \in FillBytes}]

\* struct.unpack(">H", b)[0]
RECURSIVE BigEndian(_)
BigEndian(b) ==
    IF b = <<>> THEN 0 ELSE BigEndian(PopRight(b)) * 256 + Rightmost(b)

\* struct.unpack(">I", b)[0]; an unsigned 32-bit value v is kept as
\* <<v \div 2^16, v % 2^16>>, which stays inside TLC's 32-bit integers.
BigEndian32(b) == <<BigEndian(SubSeq(b, 1, 2)), BigEndian(SubSeq(b, 3, 4))>>

\* b[lo:hi] of Python, on a 1-based sequence
Slice(b, lo, hi) == SubSeq(b, lo + 1, hi)

PacketInfo(subservice) ==
    CASE subservice = 1 -> <<"Event", " Info">>
      [] subservice = 2 -> <<"Event", " Error Low Severity">>
      [] subservice = 3 -> <<"Event", " Error Med Severity">>
      [] subservice = 4 -> <<"Event", " Error High Severity">>
      [] OTHER -> <<"Event">>

\* cls.__empty(): the constructor with an info event, event id 0, a zero
\* object id and zero parameters.
EmptyTm ==
    [service |-> 5, subservice |-> 1, tm_data |-> TmData(14, 0),
     event_id |-> 0, object_id |-> <<0, 0, 0, 0>>,
     param_1 |-> <<0, 0>>, param_2 |-> <<0, 0>>,
     info |-> PacketInfo(1)]

\* `if instance.service != 5` only logs a warning: it rejects nothing.
ServiceAccepted(service) == TRUE

\* A length test that is off by one: 14 bytes are turned away.
TmDataMoreThanFields(tm_data) == ~(Len(tm_data) < 15)

TmDataLongEnough(tm_data) == ~(Len(tm_data) < 14)

InitWithoutBase(instance, set_attrs_from_tm_data) ==
    LET tm_data == instance.tm_data
        named == [instance EXCEPT !.info = PacketInfo(instance.subservice)]
    IN  IF ~ServiceAccepted(instance.service) \/ ~TmDataLongEnough(tm_data)
        THEN [status |-> "ValueError"]
        ELSE IF set_attrs_from_tm_data
        THEN [status |-> "ok",
              tm |-> [named EXCEPT !.event_id = BigEndian(Slice(tm_data, 0, 2)),
                                   !.object_id = Slice(tm_data, 2, 6),
                                   !.param_1 = BigEndian32(Slice(tm_data, 6, 10)),
                                   !.param_2 = BigEndian32(Slice(tm_data, 10, 14))]]
        ELSE [status |-> "ok", tm |-> named]

Unpack(raw) ==
    InitWithoutBase([EmptyTm EXCEPT !.service = raw.service,
                                    !.subservice = raw.subservice,
                                    !.tm_data = raw.tm_data], TRUE)

UnpackCall ==
    /\ \E raw \in RawPackets :
         /\ raw_tm' = raw
         /\ unpacked' = Unpack(raw)
    /\ UNCHANGED <<tvars, bvars, svars, avars>>

\* ------------------------------------------------- Service5Tm(...)
EventIds == {0, 1, 256, 4660, 65535}
\* unsigned 32-bit values as <<v \div 2^16, v % 2^16>>
Params == {<<0, 0>>, <<0, 1>>, <<1, 0>>, <<57005, 48879>>, <<65535, 65535>>}
\* object ids of every length up to MaxObjectIdLen, and some of length 4
ObjectIds ==
    {[i \in 1..n |-> i] : n \in 0..MaxObjectIdLen}
        \cup {<<0, 0, 0, 0>>, <<0, 0, 0, 42>>, <<255, 255, 255, 255>>}

\* struct.pack("!H", v), 0 <= v < 2^16
Pack16(v) == <<v \div 256, v % 256>>
\* struct.pack("!I", v), v kept as <<v \div 2^16, v % 2^16>>
Pack32(v) == Pack16(v[1]) \o Pack16(v[2])

\* ObjectId.from_bytes: whether it checks the length itself is not known
\* here, so both are possible (checks = TRUE: it raises ValueError for a
\* length other than 4).
ObjectIdFromBytes(obj_id_as_bytes, checks) ==
    IF checks /\ Len(obj_id_as_bytes) # 4 THEN "ValueError" ELSE "ok"

\* A length test that lets longer object ids pass.
ObjectIdAtLeast4(object_id) == ~(Len(object_id) < 4)

\* `if len(object_id) != 4: ... raise ValueError`
ObjectIdLengthOk(object_id) == ~(Len(object_id) # 4)

\* A layout with the two parameters in each other's place.
SourceDataParamsSwapped(event_id, object_id, param_1, param_2) ==
    Pack16(event_id) \o object_id \o Pack32(param_2) \o Pack32(param_1)

\* source_data as the constructor extends it
SourceData(event_id, object_id, param_1, param_2) ==
    Pack16(event_id) \o object_id \o Pack32(param_1) \o Pack32(param_2)

\* Service5Tm.__init__; a holds the arguments, checks is the behaviour of
\* ObjectId.from_bytes.
Service5TmInit(a, checks) ==
    IF ObjectIdFromBytes(a.object_id, checks) = "ValueError"
        \/ ~ObjectIdLengthOk(a.object_id)
    THEN [status |-> "ValueError"]
    ELSE InitWithoutBase(
             [service |-> 5, subservice |-> a.subservice,
              tm_data |-> SourceData(a.event_id, a.object_id, a.param_1, a.param_2),
              event_id |-> a.event_id, object_id |-> a.object_id,
              param_1 |-> a.param_1, param_2 |-> a.param_2,
              info |-> <<>>], FALSE)

\* pus_tm.pack() followed by PusTelemetry.unpack: the secondary header's
\* service and subservice and the source data come back as they went in.
PackedAndUnpacked(tm) ==
    [service |-> tm.service, subservice |-> tm.subservice, tm_data |-> tm.tm_data]

CtorArgs ==
    [subservice : Subservices, event_id : EventIds, object_id : ObjectIds,
     param_1 : Params, param_2 : Params]

\* One object is constructed in a run.
ConstructCall ==
    /\ built.status = "none"
    /\ \E a \in CtorArgs, checks \in BOOLEAN :
         /\ ctor_args' = a @@ [checks |-> checks]
         /\ built' = Service5TmInit(a, checks)
    /\ reparsed' = [status |-> "none"]
    /\ UNCHANGED <<tvars, uvars, svars, avars>>

\* Service5Tm.unpack(raw_telemetry=tm.pack()) on the object just built
UnpackBuilt ==
    /\ built.status = "ok"
    /\ reparsed.status = "none"
    /\ reparsed' = Unpack(PackedAndUnpacked(built.tm))
    /\ UNCHANGED <<tvars, uvars, svars, avars, ctor_args, built>>

InitBuild ==
    /\ ctor_args = [subservice |-> 1, event_id |-> 0, object_id |-> <<0, 0, 0, 0>>,
                    param_1 |-> <<0, 0>>, param_2 |-> <<0, 0>>, checks |-> FALSE]
    /\ built = [status |-> "none"]
    /\ reparsed = [status |-> "none"]

\* ------------------------------------------------- space packet reassembly
\* The 2-byte packet-start identifier given to parse_space_packets.
PacketId == <<8, 1>>

\* A space packet: 6 header bytes (identifier, sequence control, data
\* length field = number of data bytes - 1) and the data.
SpacePacket(seq, data) == PacketId \o <<192, seq, 0, Len(data) - 1>> \o data

PacketA == SpacePacket(1, <<170>>)
\* its data holds the start identifier
PacketB == SpacePacket(2, <<8, 1, 192>>)
PacketC == SpacePacket(3, <<1, 2>>)

RECURSIVE Flattened(_)
Flattened(ps) == IF ps = <<>> THEN <<>> ELSE Head(ps) \o Flattened(Tail(ps))

\* What the peer sends: whole packets, then the first bytes of one more.
SentStreams ==
    [packets : {<<>>, <<PacketA>>, <<PacketB, PacketA>>, <<PacketA, PacketB>>},
     tail : {SubSeq(PacketC, 1, k) : k \in {0, 1, 3, 5, 6, 7}}]

\* Byte counts of the recv() calls that cut the stream into frames.
ChunkSizes == {1, 2, 3, 5, 8}

\* parse_space_packets on the buffer b: scan for the start identifier, read
\* the data length field at offset 4, emit the packet when it is complete,
\* keep it when it is not; a buffer too short for a header is kept; a byte
\* that starts no valid header, or a header whose packet would be longer
\* than max_len, is skipped.
RECURSIVE ParseSpacePackets(_, _, _)
ParseSpacePackets(b, packet_id, max_len) ==
    IF Len(b) < 6
    THEN [packets |-> <<>>, leftover |-> b]
    ELSE IF SubSeq(b, 1, 2) = packet_id
    THEN LET total == b[5] * 256 + b[6] + 7 IN
         IF total > max_len
         THEN ParseSpacePackets(Tail(b), packet_id, max_len)
         ELSE IF Len(b) < total
         THEN [packets |-> <<>>, leftover |-> b]
         ELSE LET rest == ParseSpacePackets(SubSeq(b, total + 1, Len(b)),
                                            packet_id, max_len)
              IN  [packets |-> <<SubSeq(b, 1, total)>> \o rest.packets,
                   leftover |-> rest.leftover]
    ELSE ParseSpacePackets(Tail(b), packet_id, max_len)

\* `while self.__tm_queue: self.__analysis_queue.appendleft(self.__tm_queue.pop())`
RECURSIVE DrainAll(_, _)
DrainAll(q, aq) ==
    IF q = <<>> THEN aq ELSE DrainAll(PopRight(q), DrainInto(aq, Rightmost(q)))

\* The peer starts one stream in a run.
StreamStarts ==
    /\ s_sent.packets = <<>> /\ s_sent.tail = <<>> /\ s_out = <<>>
    /\ \E s \in SentStreams :
         /\ s_sent' = s
         /\ s_stream' = Flattened(s.packets) \o s.tail
    /\ s_stream' # <<>>
    /\ UNCHANGED <<tvars, uvars, bvars, avars, s_queue, s_buffer, s_out>>

\* One recv() of the loop with the queue below max_packets_stored: the
\* frame is put at the left end, nothing is evicted.
FrameArrives ==
    /\ Len(s_queue) < max_packets_stored
    /\ \E n \in ChunkSizes :
         /\ n <= Len(s_stream)
         /\ s_queue' = AppendLeft(s_queue, SubSeq(s_stream, 1, n))
         /\ s_stream' = SubSeq(s_stream, n + 1, Len(s_stream))
    /\ UNCHANGED <<tvars, uvars, bvars, avars, s_sent, s_buffer, s_out>>

\* receive() with no other thread at work: drain, parse, keep the rest.
ReceiveCall ==
    /\ s_queue # <<>>
    /\ LET parsed == ParseSpacePackets(Concatenated(DrainAll(s_queue, s_buffer)),
                                       PacketId, MaxRecvSize)
       IN  /\ s_out' = s_out \o parsed.packets
           /\ s_buffer' = IF parsed.leftover = <<>> THEN <<>>
                          ELSE <<parsed.leftover>>
    /\ s_queue' = <<>>
    /\ UNCHANGED <<tvars, uvars, bvars, avars, s_sent, s_stream>>

InitReasm ==
    /\ s_sent = [packets |-> <<>>, tail |-> <<>>]
    /\ s_stream = <<>>
    /\ s_queue = <<>>
    /\ s_buffer = <<>>
    /\ s_out = <<>>

\* ------------------------------------------------- globals_setup
\* A Python value: its type t and, by type, the integer i or the string s.
\* A member of an enumeration has the class kind of its enum as type
\* ("IntEnum" or "Enum"), its name n and its value (of type vt).
PyNone == [t |-> "NoneType", n |-> "", vt |-> "", i |-> 0, s |-> ""]
PyFloat == [t |-> "float", n |-> "", vt |-> "", i |-> 0, s |-> ""]
PyInt(k) == [t |-> "int", n |-> "", vt |-> "", i |-> k, s |-> ""]
PyStr(x) == [t |-> "str", n |-> "", vt |-> "", i |-> 0, s |-> x]
Member(kind, name, value) ==
    [t |-> kind, n |-> name, vt |-> value.t, i |-> value.i, s |-> value.s]

\* member.value
ValueOf(m) == IF m.vt = "int" THEN PyInt(m.i) ELSE PyStr(m.s)

\* isinstance(x, int): an IntEnum member is an int
IsInstanceInt(x) == x.t \in {"int", "IntEnum"}

\* a == b of Python: ints (and IntEnum members) by number, strings by
\* text, members of a plain Enum only with themselves.
PyEq(a, b) ==
    IF IsInstanceInt(a) /\ IsInstanceInt(b) THEN a.i = b.i
    ELSE IF a.t = "str" /\ b.t = "str" THEN a.s = b.s
    ELSE a = b

\* x in list
PyIn(x, list) == \E k \in 1..Len(list) : PyEq(x, list[k])

\* str.isdigit() and int(str) on the strings of the model
DigitStrings == {"0", "1", "2", "7", "9"}
IntOfStr(x) ==
    CASE x = "0" -> 0 [] x = "1" -> 1 [] x = "2" -> 2 [] x = "7" -> 7 [] x = "9" -> 9

\* str.lower()
Lower(x) == CASE x = "UDP" -> "udp" [] x = "DUMMY" -> "dummy" [] OTHER -> x

\* int(x): a digit string and an int convert, a member of a plain Enum
\* raises TypeError.
IntConvertible(x) == IsInstanceInt(x) \/ (x.t = "str" /\ x.s \in DigitStrings)
IntOf(x) == IF x.t = "str" THEN IntOfStr(x.s) ELSE x.i

\* CoreModeList of tmtccmd.core.definitions, an integer enumeration.
CoreModeList ==
    << Member("IntEnum", "SINGLE_CMD_MODE", PyInt(0)),
       Member("IntEnum", "LISTENER_MODE", PyInt(1)),
       Member("IntEnum", "GUI_MODE", PyInt(2)) >>
SINGLE_CMD_MODE == CoreModeList[1]

\* A custom mode list, an enumeration of communication interfaces with
\* string values, a plain Enum with integer values, an empty enumeration.
CustomModeList ==
    << Member("IntEnum", "CUSTOM_MODE_A", PyInt(7)),
       Member("IntEnum", "CUSTOM_MODE_B", PyInt(9)) >>
ComInterfaces ==
    << Member("Enum", "DUMMY", PyStr("dummy")),
       Member("Enum", "TCPIP_UDP", PyStr("udp")) >>
PlainIntValued ==
    << Member("Enum", "FIRST", PyInt(1)), Member("Enum", "SECOND", PyInt(2)) >>
Enumerations == {CoreModeList, CustomModeList, ComInterfaces, PlainIntValued, <<>>}

ParamValues ==
    {PyNone, PyFloat, CoreModeList[2]}
        \cup {PyInt(k) : k \in {0, 1, 2, 7, 8}}
        \cup {PyStr(x) : x \in {"0", "2", "7", "9", "udp", "dummy", "x"}}

ArgsResult(found, value) == [status |-> "ok", found |-> found, value |-> value]

\* `for param in enumeration:` binds the name param anew: after the loop
\* it is the last member, and the argument only when there was no member.
ParamAfterLoop(param, enumeration) ==
    IF enumeration = <<>> THEN param ELSE enumeration[Len(enumeration)]

CheckArgsInEnum(param, enumeration) ==
    LET might_be_integer == param.t = "str" /\ param.s \in DigitStrings
        param_list ==
            [k \in 1..Len(enumeration) |->
                LET v == ValueOf(enumeration[k])
                IN  IF v.t = "str" THEN PyStr(Lower(v.s)) ELSE v]
        p == ParamAfterLoop(param, enumeration)
    IN  IF param.t = "NoneType" THEN ArgsResult(FALSE, PyInt(0))
        ELSE IF ~(param.t = "str" \/ IsInstanceInt(param))
        THEN ArgsResult(FALSE, PyInt(0))
        ELSE IF ~PyIn(p, param_list)
        THEN IF might_be_integer
             THEN IF ~IntConvertible(p) THEN [status |-> "TypeError"]
                  ELSE IF PyIn(PyInt(IntOf(p)), param_list)
                  THEN ArgsResult(TRUE, PyInt(IntOf(p)))
                  ELSE ArgsResult(FALSE, PyInt(0))
             ELSE ArgsResult(FALSE, PyInt(0))
        ELSE ArgsResult(TRUE, p)

CheckArgsInEnumCall ==
    /\ \E param \in ParamValues, enumeration \in Enumerations :
         /\ args_in' = [param |-> param, enumeration |-> enumeration]
         /\ args_out' = CheckArgsInEnum(param, enumeration)
    /\ UNCHANGED <<tvars, uvars, bvars, svars, mode_in, global_mode>>

\* custom_mode_int_enum: None or an enumeration
CustomModeArgs ==
    {[given |-> FALSE, enumeration |-> <<>>],
     [given |-> TRUE, enumeration |-> CustomModeList]}

\* check_and_set_core_mode_arg: the new value of the global MODE, or the
\* exception that leaves it as it was.
CheckAndSetCoreModeArg(mode_arg, custom_mode_int_enum) ==
    LET core == CheckArgsInEnum(mode_arg, CoreModeList)
        custom == CheckArgsInEnum(mode_arg, custom_mode_int_enum.enumeration)
    IN  IF core.status # "ok" THEN [status |-> core.status]
        ELSE IF core.found THEN [status |-> "ok", mode |-> core.value]
        ELSE IF ~custom_mode_int_enum.given
        THEN [status |-> "ok", mode |-> SINGLE_CMD_MODE]
        ELSE IF custom.status # "ok" THEN [status |-> custom.status]
        ELSE IF custom.found THEN [status |-> "ok", mode |-> custom.value]
        ELSE [status |-> "ok", mode |-> SINGLE_CMD_MODE]

CheckAndSetCoreModeArgCall ==
    /\ \E mode_arg \in ParamValues, custom \in CustomModeArgs :
         /\ mode_in' = [mode_arg |-> mode_arg, custom_mode_int_enum |-> custom]
         /\ LET r == CheckAndSetCoreModeArg(mode_arg, custom)
            IN  global_mode' = IF r.status = "ok"
                               THEN [set |-> TRUE, exc |-> "none", value |-> r.mode]
                               ELSE [global_mode EXCEPT !.exc = r.status]
    /\ UNCHANGED <<tvars, uvars, bvars, svars, args_in, args_out>>

InitArgs ==
    /\ args_in = [param |-> PyNone, enumeration |-> <<>>]
    /\ args_out = [status |-> "none"]
    /\ mode_in = [mode_arg |-> PyNone,
                  custom_mode_int_enum |-> [given |-> FALSE, enumeration |-> <<>>]]
    /\ global_mode = [set |-> FALSE, exc |-> "none", value |-> PyNone]

InitEvent ==
    /\ raw_tm = [service |-> 5, subservice |-> 1, tm_data |-> <<>>]
    /\ unpacked = [status |-> "none"]

Init == InitTransport /\ InitEvent /\ InitBuild /\ InitReasm /\ InitArgs

Next == LoopNext \/ CallerNext

Spec == Init /\ [][Next]_vars

NextEvent == UnpackCall

\* The loop thread is scheduled fairly; the caller may stop calling.
SpecFair == Spec /\ WF_vars(LoopNext)

SpecEvent == Init /\ [][NextEvent]_vars

NextBuild == ConstructCall \/ UnpackBuilt

SpecBuild == Init /\ [][NextBuild]_vars

NextReasm == StreamStarts \/ FrameArrives \/ ReceiveCall

SpecReasm == Init /\ [][NextReasm]_vars

NextArgs == CheckArgsInEnumCall \/ CheckAndSetCoreModeArgCall

SpecArgs == Init /\ [][NextArgs]_vars

\* ========================================================= claims
InReceive == mpc \in {"r_test", "r_move", "r_release", "r_parse"}
InClose == mpc \in {"c_join", "c_shutdown", "c_sockclose"}
LoopInQueueStep == lpc \in {"lencheck", "pop", "append"}

RECURSIVE IsSorted(_)
IsSorted(b) ==
    \/ Len(b) <= 1
    \/ /\ b[Len(b) - 1] <= b[Len(b)]
       /\ IsSorted(PopRight(b))

\* C1: the tm queue never holds more than max_packets_stored frames, and an
\* enqueue that found exactly max_packets_stored frames at its length test
\* removes exactly one frame and leaves exactly max_packets_stored frames.
C1_BoundAndEvictOne ==
    [][ /\ Len(tm_queue') <= max_packets_stored
        /\ (LoopPop /\ l_len = max_packets_stored /\ max_packets_stored >= 1)
              => (tm_queue # <<>> /\ tm_queue' = PopRight(tm_queue))
        /\ (LoopAppend /\ l_len = max_packets_stored)
              => Len(tm_queue') = max_packets_stored ]_vars

\* C2: unpack of a packet whose service is not 5 raises and returns no
\* object, whatever the length of its source data.
C2_ServiceMismatchRejected ==
    (unpacked.status # "none" /\ raw_tm.service # 5)
        => unpacked.status = "ValueError"

\* C3: in an iteration whose lock acquisition timed out, the loop leaves
\* the tm queue as it is (the frame read is dropped) and goes on.
C3_TimedOutFrameDropped ==
    [][ (LoopNext /\ LoopInQueueStep /\ ~l_acquired)
            => (tm_queue' = tm_queue /\ lpc' # "crashed") ]_vars

\* C4: a thread that is about to change the tm queue holds the queue lock,
\* and the loop's enqueue/evict and receive's drain are never both in
\* progress.
C4_QueueChangedOnlyUnderLock ==
    /\ lpc \in {"pop", "append"} => (l_acquired /\ queue_lock = "loop")
    /\ mpc = "r_move" => (r_acquired /\ queue_lock = "main")
    /\ ~(LoopInQueueStep /\ mpc \in {"r_test", "r_move"})

\* C5: a receive() that took the lock releases it with the tm queue empty:
\* all that was queued has been moved, and nothing was enqueued meanwhile.
C5_QueueEmptyAtRelease ==
    (mpc = "r_release" /\ r_acquired) => tm_queue = <<>>

\* C6: the bytes the reassembler has consumed, followed by the bytes it
\* will read from the analysis queue, are in socket arrival order.
C6_ArrivalOrder ==
    IsSorted(reassembled \o Concatenated(analysis_queue))

\* C6 witness: a receive() is about to parse bytes left by an earlier call
\* followed by two frames it has moved itself.
C6_Witness ==
    /\ mpc = "r_parse"
    /\ r_moved = 2
    /\ Len(analysis_queue) = 3
    /\ \A i \in 1..3 : analysis_queue[i] # <<>>
    /\ reassembled # <<>>

\* C7: a receive() in progress can always take its next step without a
\* frame arriving, and one that finds no frame queued and an empty analysis
\* queue returns the empty sequence.
C7_ReceiveNeverWaits ==
    /\ [](InReceive => ENABLED ReceiveNext)
    /\ [][ (ReceiveParse /\ r_moved = 0 /\ analysis_queue = <<>>)
               => ret' = Returned("receive", <<>>) ]_vars

\* C7 witness: receive() has returned the empty sequence while the loop
\* runs and nothing is queued or buffered.
C7_Witness ==
    /\ mpc = "idle"
    /\ ret = Returned("receive", <<>>)
    /\ LoopRunning
    /\ tm_queue = <<>>
    /\ analysis_queue = <<>>

\* C8: data_available() returns whether the tm queue is non-empty and
\* changes neither queue; bytes kept in the analysis queue do not count.
C8_DataAvailable ==
    [][ DataAvailable
            => /\ ret' = Returned("data_available", Len(tm_queue) >= 1)
               /\ UNCHANGED <<tm_queue, analysis_queue>> ]_vars

\* C8 witness: data_available() has returned false while the analysis
\* queue holds bytes of an earlier receive().
C8_Witness ==
    /\ ret = Returned("data_available", FALSE)
    /\ analysis_queue # <<>>
    /\ Concatenated(analysis_queue) # <<>>
    /\ tm_queue = <<>>

\* C9: on a transport whose socket initialize() has connected, a close()
\* that began after the loop had exited ends without raising, also when an
\* earlier close() has completed.
C9_CloseSafeAfterLoopExit ==
    [][ (InClose /\ c_exited /\ tcp_socket \in {"connected", "closed"}
                 /\ mpc' = "idle")
            => ret'.exc = "none" ]_vars

\* C10: whenever the loop ends while the socket is connected, the stop
\* signal has been set: no error of the read, no lock timeout and no state
\* of the queue ends it.
C10_LoopEndsOnlyOnStop ==
    [][ (~LoopFinished /\ LoopFinished' /\ tcp_socket = "connected")
            => kill_ever_set' ]_vars


\* A send() that finds the connection refused and one that writes.
SendRefused == Send /\ ret' = Returned("send", FALSE)
SendWrites == Send /\ ret' = Returned("send", TRUE)

\* C11: no send() lets ConnectionRefusedError reach the caller; a send()
\* that meets the refusal returns normally and leaves the tm queue, the
\* analysis queue, the stop signal, the socket, the lock and the loop as
\* they were; after it a further send() can still write to the socket.
C11_SendRefusedHarmless ==
    /\ [][ Send => /\ ret'.exc # "ConnectionRefusedError"
                   /\ UNCHANGED <<tm_queue, analysis_queue, kill_signal,
                                  tcp_socket, queue_lock, lpc, bytes_recvd,
                                  max_packets_stored>> ]_vars
    /\ []( ret = Returned("send", FALSE) /\ mpc = "idle"
              => tcp_socket = "connected" /\ ENABLED SendWrites )

\* C11 witness: send() has returned after a refused connection while the
\* loop runs and frames are queued.
C11_Witness ==
    /\ ret = Returned("send", FALSE)
    /\ mpc = "idle"
    /\ LoopRunning
    /\ Len(tm_queue) >= 1


\* C12: unpack of a packet with 13 bytes of source data or fewer raises
\* and returns no object, so none of event_id, reporter id, param_1 and
\* param_2 is read; with exactly 14 bytes and service 5 it returns an
\* object whose fields are read from those 14 bytes.
C12_ShortSourceDataRejected ==
    /\ (unpacked.status # "none" /\ Len(raw_tm.tm_data) <= 13)
          => (unpacked.status = "ValueError" /\ DOMAIN unpacked = {"status"})
    /\ (unpacked.status # "none" /\ Len(raw_tm.tm_data) = 14
           /\ raw_tm.service = 5)
          => /\ unpacked.status = "ok"
             /\ unpacked.tm.event_id = BigEndian(SubSeq(raw_tm.tm_data, 1, 2))
             /\ unpacked.tm.object_id = SubSeq(raw_tm.tm_data, 3, 6)

\* C12 witness: a service 5 packet with 13 bytes of source data has been
\* turned away.
C12_Witness ==
    /\ unpacked.status = "ValueError"
    /\ raw_tm.service = 5
    /\ Len(raw_tm.tm_data) = 13


\* C13: a Service5Tm constructor call whose object id is not 4 bytes long
\* (shorter, empty or longer) raises ValueError and produces no packet,
\* so nothing can be unpacked from it.
C13_ObjectIdLengthChecked ==
    (built.status # "none" /\ Len(ctor_args.object_id) # 4)
        => /\ built.status = "ValueError"
           /\ DOMAIN built = {"status"}
           /\ ~ENABLED UnpackBuilt

\* C13 witness: the constructor has raised on an object id of 5 bytes that
\* ObjectId.from_bytes let pass.
C13_Witness ==
    /\ built.status = "ValueError"
    /\ Len(ctor_args.object_id) = 5
    /\ ~ctor_args.checks

\* C14: unpack of a packet built by the constructor returns an object with
\* the event id, object id, param_1 and param_2 the constructor was given;
\* the source data of the built packet is 14 bytes: the event id in bytes
\* 0-1, the object id in bytes 2-5, param_1 in bytes 6-9 and param_2 in
\* bytes 10-13, each big-endian.
C14_RoundTrip ==
    /\ built.status = "ok"
          => LET d == built.tm.tm_data
                 a == ctor_args
             IN  /\ Len(d) = 14
                 /\ d[1] * 256 + d[2] = a.event_id
                 /\ <<d[3], d[4], d[5], d[6]>> = a.object_id
                 /\ <<d[7] * 256 + d[8], d[9] * 256 + d[10]>> = a.param_1
                 /\ <<d[11] * 256 + d[12], d[13] * 256 + d[14]>> = a.param_2
                 /\ \A i \in 1..14 : d[i] \in 0..255
    /\ reparsed.status # "none"
          => /\ reparsed.status = "ok"
             /\ reparsed.tm.event_id = ctor_args.event_id
             /\ reparsed.tm.object_id = ctor_args.object_id
             /\ reparsed.tm.param_1 = ctor_args.param_1
             /\ reparsed.tm.param_2 = ctor_args.param_2
             /\ reparsed.tm.subservice = ctor_args.subservice

\* C14 witness: the packet of spec section 6 (event id 0x1234, object id
\* 0 0 0 42, param_1 0xDEADBEEF, param_2 0, medium severity) has been
\* built and unpacked.
C14_Witness ==
    /\ reparsed.status = "ok"
    /\ ctor_args.event_id = 4660
    /\ ctor_args.object_id = <<0, 0, 0, 42>>
    /\ ctor_args.param_1 = <<57005, 48879>>
    /\ ctor_args.param_2 = <<0, 0>>
    /\ ctor_args.subservice = 3


\* The bytes that receive() calls have taken from the tm queue so far.
DrainedBytes ==
    LET input == Flattened(s_sent.packets) \o s_sent.tail
    IN  SubSeq(input, 1, Len(input) - Len(s_stream) - Len(Concatenated(s_queue)))

\* The packets of ps that lie wholly within the first n bytes.
RECURSIVE WholePackets(_, _)
WholePackets(ps, n) ==
    IF ps = <<>> \/ Len(Head(ps)) > n THEN <<>>
    ELSE <<Head(ps)>> \o WholePackets(Tail(ps), n - Len(Head(ps)))

\* C15: however the stream is cut into frames and however the frames are
\* spread over receive() calls, the packets returned so far are exactly the
\* sent packets that have wholly been taken from the queue, in the order
\* sent, and the bytes after them (an incomplete packet) are all in the
\* analysis queue: not returned, not lost.
C15_FragmentationIndependent ==
    /\ s_out = WholePackets(s_sent.packets, Len(DrainedBytes))
    /\ Flattened(s_out) \o Concatenated(s_buffer) = DrainedBytes

\* C15 witness: two packets and 7 bytes of a third have arrived in frames
\* of at most 8 bytes and over more than one receive(); the two packets
\* have been returned and the 7 bytes are kept.
C15_Witness ==
    /\ s_sent.packets = <<PacketA, PacketB>>
    /\ s_out = <<PacketA, PacketB>>
    /\ s_stream = <<>>
    /\ s_queue = <<>>
    /\ s_buffer = <<SubSeq(PacketC, 1, 7)>>


\* The value the passed parameter stands for: the integer of a digit
\* string that is itself no value of the enumeration, else the parameter.
MembersWithValue(x, enumeration) ==
    {k \in 1..Len(enumeration) : PyEq(x, ValueOf(enumeration[k]))}
Contained(param, enumeration) ==
    /\ param.t = "str" \/ IsInstanceInt(param)
    /\ \/ MembersWithValue(param, enumeration) # {}
       \/ /\ param.t = "str" /\ param.s \in DigitStrings
          /\ MembersWithValue(PyInt(IntOfStr(param.s)), enumeration) # {}
ContainedValue(param, enumeration) ==
    IF MembersWithValue(param, enumeration) # {} THEN param
    ELSE PyInt(IntOfStr(param.s))

\* C16: check_args_in_enum returns (True, v) exactly when the passed
\* parameter, or the integer of a passed digit string, equals the value v
\* of a member of the enumeration, and (False, 0) in every other case.
C16_CheckArgsInEnum ==
    args_out.status # "none"
        => /\ args_out.status = "ok"
           /\ args_out.found = Contained(args_in.param, args_in.enumeration)
           /\ IF args_out.found
              THEN PyEq(args_out.value,
                        ContainedValue(args_in.param, args_in.enumeration))
              ELSE args_out.value = PyInt(0)

\* C17: check_and_set_core_mode_arg sets the global MODE to the passed
\* mode when it is a value of the core mode list or of the custom mode
\* list, and to SINGLE_CMD_MODE when it is in neither.
C17_CoreModeSet ==
    global_mode.set
        => LET mode_arg == mode_in.mode_arg
               custom == mode_in.custom_mode_int_enum
               found == \/ Contained(mode_arg, CoreModeList)
                        \/ custom.given /\ Contained(mode_arg, custom.enumeration)
           IN  /\ global_mode.exc = "none"
               /\ IF found
                  THEN PyEq(global_mode.value,
                            IF Contained(mode_arg, CoreModeList)
                            THEN ContainedValue(mode_arg, CoreModeList)
                            ELSE ContainedValue(mode_arg, custom.enumeration))
                  ELSE PyEq(global_mode.value, SINGLE_CMD_MODE)


\* The sequence q without its i-th element.
WithoutIndex(q, i) == SubSeq(q, 1, i - 1) \o SubSeq(q, i + 1, Len(q))
\* f arrived no later than g (a frame without bytes carries no arrival
\* number and is not compared).
NotAfter(f, g) == (f # <<>> /\ g # <<>>) => f[1] <= g[1]

\* C18: an eviction removes exactly one frame, the one that arrived
\* earliest among those queued, and keeps the others in their order; the
\* enqueue that follows adds the newly read frame as the newest and keeps
\* the others in their order.
C18_EvictionDropsOldest ==
    [][ /\ (LoopPop /\ tm_queue # <<>>)
              => \E i \in 1..Len(tm_queue) :
                    /\ tm_queue' = WithoutIndex(tm_queue, i)
                    /\ \A j \in 1..Len(tm_queue) :
                          NotAfter(tm_queue[i], tm_queue[j])
        /\ LoopAppend
              => \E i \in 1..Len(tm_queue') :
                    /\ tm_queue'[i] = bytes_recvd
                    /\ WithoutIndex(tm_queue', i) = tm_queue
                    /\ \A j \in 1..Len(tm_queue) :
                          NotAfter(tm_queue[j], bytes_recvd) ]_vars

\* C18 witness: with max_packets_stored = 2 and the frames of arrival 1
\* and 2 queued, the frame of arrival 3 has been enqueued under the lock;
\* frame 1 is gone, frames 3 and 2 are queued, nothing was handed to
\* receive().
C18_Witness ==
    /\ lpc = "release" /\ l_acquired
    /\ max_packets_stored = 2 /\ l_len = 2
    /\ tm_queue = <<Frame(3, 2), Frame(2, 2)>>
    /\ bytes_recvd = Frame(3, 2)
    /\ analysis_queue = <<>> /\ reassembled = <<>>



\* close() has just set the stop signal on a transport that is
\* initialized and whose loop has been started and has not ended.
StopRequested ==
    mpc = "c_join" /\ kill_signal /\ tcp_socket = "connected" /\ LoopRunning

\* C19: once close() has set the stop signal on an opened transport, the
\* loop thread, scheduled fairly, eventually ends.
C19_LoopEndsAfterStop == StopRequested ~> LoopFinished


\* C20: the queue lock is held only over the steps that change the tm
\* queue: the loop holds it from its acquisition to its release, after
\* select and recv have returned, and the caller holds it only over the
\* drain loop of receive(); it is not held by the thread that parses, and
\* the reassembler is run by receive() alone.
C20_LockNotHeldOverIoOrParsing ==
    /\ []( /\ queue_lock = "loop" => lpc \in {"lencheck", "pop", "append", "release"}
           /\ queue_lock = "main" => mpc \in {"r_test", "r_move", "r_release"} )
    /\ [][ /\ (LoopSelect \/ LoopRecv) => queue_lock # "loop"
           /\ ReceiveParse => queue_lock # "main"
           /\ (reassembled' # reassembled) => ReceiveParse ]_vars

\* C20 witness: receive() is about to parse bytes it has drained while the
\* loop holds the lock for its next enqueue.
C20_Witness ==
    /\ mpc = "r_parse"
    /\ analysis_queue # <<>>
    /\ queue_lock = "loop"
    /\ lpc = "append"


\* All bytes handed to the analysis queue so far, in the order handed:
\* those the reassembler has consumed and those still buffered.
Handed == reassembled \o Concatenated(analysis_queue)
\* The loop holds a frame it has read and not yet enqueued.
FrameInHand == lpc \in {"acquire", "lencheck", "pop", "append"}
\* The bytes handed over, then those queued (oldest first), then those of
\* the frame the loop is about to enqueue.
BytesInPlaces ==
    Handed \o Concatenated(tm_queue) \o (IF FrameInHand THEN bytes_recvd ELSE <<>>)
\* The largest number of bytes one frame has.
LargestFrame == CHOOSE n \in RecvSizes : \A m \in RecvSizes : m <= n

\* C21: no frame is in two places or twice in one, and none is handed
\* over twice: over the three places together the bytes are in arrival
\* order and no arrival number is on more bytes than one frame has.  A
\* step takes a frame out of the tm queue only as the eviction of an
\* overflowing enqueue or by handing that very frame to the analysis
\* queue, it puts in only the frame just read, and handed bytes stay.
\* Frames of zero bytes carry no arrival number and are counted only by
\* the length of the queue.
C21_FrameConservation ==
    /\ []( LET all == BytesInPlaces IN
           \A k \in 1..(Len(all) - 1) :
              /\ all[k] <= all[k + 1]
              /\ (k + LargestFrame <= Len(all)) => all[k] < all[k + LargestFrame] )
    /\ [][ \/ /\ tm_queue' = tm_queue
              /\ \/ analysis_queue' = analysis_queue /\ reassembled' = reassembled
                 \/ Handed' = Handed
           \/ /\ lpc = "append" /\ LoopAppend
              /\ \E i \in 1..Len(tm_queue') :
                    /\ tm_queue'[i] = bytes_recvd
                    /\ WithoutIndex(tm_queue', i) = tm_queue
              /\ Handed' = Handed
           \/ /\ lpc = "pop" /\ LoopPop /\ l_len >= max_packets_stored
              /\ \E i \in 1..Len(tm_queue) : tm_queue' = WithoutIndex(tm_queue, i)
              /\ Handed' = Handed
           \/ /\ mpc = "r_move" /\ ReceiveMove
              /\ \E i \in 1..Len(tm_queue) :
                    /\ tm_queue' = WithoutIndex(tm_queue, i)
                    /\ Handed' = Handed \o tm_queue[i] ]_vars

\* C21 witness: of three frames read with max_packets_stored = 2, the
\* first is gone by eviction, the second has been handed over by the
\* receive() in progress and the third is still in the tm queue.
C21_Witness ==
    /\ max_packets_stored = 2
    /\ mpc = "r_test" /\ r_moved = 1
    /\ tm_queue = <<Frame(3, 2)>>
    /\ Handed = Frame(2, 2)
    /\ lpc \in {"check", "select"}


\* close() was the last call made on the transport and it has returned
\* normally.
CloseReturned == mpc = "idle" /\ ret = Returned("close", <<>>)

\* C22: once close() has returned the loop makes no readiness check and
\* no recv on the socket and enqueues no frame.
C22_QuietAfterClose ==
    [][ CloseReturned => ~(LoopSelect \/ LoopRecv \/ LoopAppend) ]_vars


\* An open() whose Thread.start() brought a loop into being.
LoopStarted == Open /\ ret' = Returned("open", <<>>)

\* C23: a loop is started only on a thread that never ran, and a thread
\* that has run is never again one that has not: over the life of the
\* transport at most one loop comes into being, so no state has two.
C23_AtMostOneLoop ==
    /\ [][ LoopStarted => (lpc = "new" /\ lpc' = "check") ]_vars
    /\ [][ lpc # "new" => lpc' # "new" ]_vars
    /\ [][ (lpc = "new" /\ lpc' # "new") => LoopStarted ]_vars

\* C23 witness: after a close() and a new initialize() the last call was an
\* open(); it raised, and the loop that had ended stays ended.
C23_Witness ==
    /\ ret = Raised("open", "RuntimeError")
    /\ kill_ever_set /\ ~kill_signal
    /\ tcp_socket = "connected"
    /\ lpc = "exited"


\* C24: every frame in the tm queue has at least one byte and at most
\* max_recv_size bytes, and no frame is evicted to make room for a read
\* of zero bytes.
C24_QueuedFramesNonEmpty ==
    /\ [](\A i \in 1..Len(tm_queue) : Len(tm_queue[i]) \in 1..MaxRecvSize)
    /\ [][ (LoopPop /\ tm_queue' # tm_queue) => bytes_recvd # <<>> ]_vars

=============================================================================
